---- MODULE Spec2Model ----
(***************************************************************************)
(* Model of lib/spack/llnl/util/tty/colify.py: the two column-fitting      *)
(* algorithms (config_variable_cols, config_uniform_cols) and the colify   *)
(* entry point with its row-by-row renderer.                                *)
(*                                                                         *)
(* A label is represented by its length (the only property the planners    *)
(* measure) and is identified by its 0-based index in elts.  "/" on ints   *)
(* in the source is Python 2 floor division, written \div here.            *)
(***************************************************************************)
EXTENDS Integers, Sequences, FiniteSets, TLC

\* ---- bounds of the explored inputs ----
MaxElts == 4
MaxLabelLen == 2
MaxPadding == 2
MaxWidth == 6
MaxIndent == 1

VARIABLES
  elts,          \* the labels, as the sequence of their lengths
  padding,       \* option padding
  indent,        \* option indent
  tty,           \* option tty: "None", "True" or "False"
  isatty,        \* what output.isatty() answers
  method,        \* option method
  width,         \* option width, or what terminal_size() answers
  pc,            \* position in colify: start, planned, render, done, failed
  console_cols,  \* local console_cols after line 158 (0 before)
  config,        \* the ColumnConfig the planner returned
  formats,       \* local formats
  cols,          \* local cols (decremented by the renderer)
  rows,          \* local rows
  rows_last_col, \* local rows_last_col
  row,           \* loop variable of the row loop
  output,        \* what has been written to the sink, line by line
  result,        \* the returned tuple
  error          \* the exception that left colify, and where it was raised

vars == <<elts, padding, indent, tty, isatty, method, width, pc, console_cols,
          config, formats, cols, rows, rows_last_col, row, output, result,
          error>>

\* ---- arithmetic helpers (Python builtins min, max, sum) ----
Min2(a, b) == IF a < b THEN a ELSE b

Max2(a, b) == IF a > b THEN a ELSE b

SeqMin(s) == CHOOSE x \in {s[j] : j \in 1..Len(s)} : \A j \in 1..Len(s) : x <= s[j]

SeqMax(s) == CHOOSE x \in {s[j] : j \in 1..Len(s)} : \A j \in 1..Len(s) : x >= s[j]

SetMax(S) == CHOOSE x \in S : \A y \in S : x >= y

RECURSIVE SeqSum(_)
SeqSum(s) == IF s = <<>> THEN 0 ELSE s[1] + SeqSum(Tail(s))

\* ---- class ColumnConfig ----
ColumnConfig(c) ==
  [cols |-> c, line_length |-> 0, valid |-> TRUE, widths |-> [j \in 1..c |-> 0]]

NoConfig == [cols |-> 0, line_length |-> 0, valid |-> FALSE, widths |-> <<>>]

NoError == [exc |-> "none", at |-> "none"]

\* ---- config_variable_cols ----

\* line 61-62: the bound on the number of columns (divisor assumed nonzero)
max_cols(lengths, console_width, pad) ==
  Min2(Len(lengths), Max2(1, console_width \div (SeqMin(lengths) + pad)))

\* line 77: a candidate stays valid while its line is shorter than the console
still_valid(line_length, console_width) == line_length < console_width

\* lines 68-77: candidate number i (0-based, i+1 columns) looks at label elt
visit(conf, i, elt, lengths, console_width, pad) ==
  IF ~conf.valid THEN conf
  ELSE LET col    == elt \div ((Len(lengths) + i) \div (i + 1))
           padded == lengths[elt + 1] + (IF col < i THEN pad ELSE 0)
       IN IF conf.widths[col + 1] < padded
          THEN LET ll == conf.line_length + (padded - conf.widths[col + 1])
               IN [conf EXCEPT !.line_length = ll,
                               !.widths[col + 1] = padded,
                               !.valid = still_valid(ll, console_width)]
          ELSE conf

\* lines 65-77 for one candidate: its state after the first k labels
RECURSIVE fit(_, _, _, _, _)
fit(i, k, lengths, console_width, pad) ==
  IF k = 0 THEN ColumnConfig(i + 1)
  ELSE visit(fit(i, k - 1, lengths, console_width, pad), i, k - 1,
             lengths, console_width, pad)

\* lines 65-77: all candidates after the shared pass over the labels
fitted_configs(lengths, console_width, pad) ==
  [j \in 1..max_cols(lengths, console_width, pad) |->
     fit(j - 1, Len(lengths), lengths, console_width, pad)]

\* the mutant of select_config: the fallback takes the last candidate
select_config_last(configs) ==
  LET ok == {j \in 1..Len(configs) : configs[j].valid}
  IN IF ok # {} THEN configs[SetMax(ok)] ELSE configs[Len(configs)]

\* lines 79-83: the last valid candidate, or the first one when none is valid
select_config(configs) ==
  LET ok == {j \in 1..Len(configs) : configs[j].valid}
  IN IF ok # {} THEN configs[SetMax(ok)] ELSE configs[1]

\* lines 85-86: drop the zero widths and recount the columns
strip_config(conf) ==
  LET ws == SelectSeq(conf.widths, LAMBDA w : w # 0)
  IN [conf EXCEPT !.widths = ws, !.cols = Len(ws)]

\* line 61 divides by min(lengths) + padding
variable_divides_by_zero(lengths, pad) == SeqMin(lengths) + pad = 0

config_variable_cols(lengths, console_width, pad) ==
  strip_config(select_config(fitted_configs(lengths, console_width, pad)))

\* ---- config_uniform_cols ----

\* line 97
uniform_max_len(lengths, pad) == SeqMax(lengths) + pad

\* line 98 divides by max_len
uniform_divides_by_zero(lengths, pad) == uniform_max_len(lengths, pad) = 0

\* the mutant of uniform_cols: the padding is left out of the divisor
uniform_cols_unpadded(lengths, console_width, pad) ==
  IF SeqMax(lengths) = 0 THEN Len(lengths)
  ELSE Min2(Len(lengths), Max2(1, console_width \div SeqMax(lengths)))

\* lines 98-99
uniform_cols(lengths, console_width, pad) ==
  Min2(Len(lengths), Max2(1, console_width \div uniform_max_len(lengths, pad)))

config_uniform_cols(lengths, console_width, pad) ==
  LET c == uniform_cols(lengths, console_width, pad)
  IN [ColumnConfig(c) EXCEPT
        !.widths = [j \in 1..c |-> uniform_max_len(lengths, pad)]]

\* ---- colify ----

\* lines 145-146: the one-label-per-line path is taken
single_column(t, a) == t # "True" /\ (t = "False" \/ ~a)

\* lines 169-170: "%-<w>s" for every width but the last, then "%s"
make_formats(widths) ==
  [j \in 1..Max2(Len(widths) - 1, 0) |-> [ljust |-> widths[j]]]
    \o <<[ljust |-> 0]>>

\* the % operator on a format and a label: the text written for label elt
format(fmt, elt, length) ==
  [elt |-> elt, pad |-> Max2(fmt.ljust - length, 0)]

\* lines 177-178: the index col * rows + row read for each column of row r
row_cells(r, c, nrows) ==
  [j \in 1..c |-> (j - 1) * nrows + r]

Methods == {"variable", "uniform", "bogus"}

\* lines 128-141: the options of one call.  Every call modelled passes only
\* known keywords and an int width (or gets one from terminal_size()).
Init ==
  /\ elts \in UNION {[1..n -> 0..MaxLabelLen] : n \in 0..MaxElts}
  /\ padding \in 0..MaxPadding
  /\ indent \in 0..MaxIndent
  /\ tty \in {"None", "True", "False"}
  /\ isatty \in BOOLEAN
  /\ method \in Methods
  /\ width \in 1..MaxWidth
  /\ pc = "start"
  /\ console_cols = 0
  /\ config = NoConfig
  /\ formats = <<>>
  /\ cols = 0
  /\ rows = 0
  /\ rows_last_col = 0
  /\ row = 0
  /\ output = <<>>
  /\ result = <<>>
  /\ error = NoError

\* lines 142-143
ReturnEmpty ==
  /\ pc = "start"
  /\ elts = <<>>
  /\ result' = <<0, <<>>>>
  /\ pc' = "done"
  /\ UNCHANGED <<elts, padding, indent, tty, isatty, method, width,
                 console_cols, config, formats, cols, rows, rows_last_col,
                 row, output, error>>

\* lines 145-151
WriteSingleColumn ==
  /\ pc = "start"
  /\ elts # <<>>
  /\ single_column(tty, isatty)
  /\ output' = [j \in 1..Len(elts) |->
                  [indent |-> 0, cells |-> <<[elt |-> j - 1, pad |-> 0]>>,
                   newline |-> TRUE]]
  /\ result' = <<1, <<SeqMax(elts)>>>>
  /\ pc' = "done"
  /\ UNCHANGED <<elts, padding, indent, tty, isatty, method, width,
                 console_cols, config, formats, cols, rows, rows_last_col,
                 row, error>>

\* lines 153-162
PlanVariable ==
  /\ pc = "start"
  /\ elts # <<>>
  /\ ~single_column(tty, isatty)
  /\ method = "variable"
  /\ console_cols' = Max2(1, width - indent)
  /\ IF variable_divides_by_zero(elts, padding)
     THEN /\ error' = [exc |-> "ZeroDivisionError", at |-> "config_variable_cols"]
          /\ pc' = "failed"
          /\ UNCHANGED config
     ELSE /\ config' = config_variable_cols(elts, console_cols', padding)
          /\ pc' = "planned"
          /\ UNCHANGED error
  /\ UNCHANGED <<elts, padding, indent, tty, isatty, method, width, formats,
                 cols, rows, rows_last_col, row, output, result>>

\* lines 153-158, 163-164
PlanUniform ==
  /\ pc = "start"
  /\ elts # <<>>
  /\ ~single_column(tty, isatty)
  /\ method = "uniform"
  /\ console_cols' = Max2(1, width - indent)
  /\ IF uniform_divides_by_zero(elts, padding)
     THEN /\ error' = [exc |-> "ZeroDivisionError", at |-> "config_uniform_cols"]
          /\ pc' = "failed"
          /\ UNCHANGED config
     ELSE /\ config' = config_uniform_cols(elts, console_cols', padding)
          /\ pc' = "planned"
          /\ UNCHANGED error
  /\ UNCHANGED <<elts, padding, indent, tty, isatty, method, width, formats,
                 cols, rows, rows_last_col, row, output, result>>

\* lines 153-158, 165-166: the raise statement reads the undefined name
\* allowed_methods, so what leaves colify is a NameError
RaiseBadMethod ==
  /\ pc = "start"
  /\ elts # <<>>
  /\ ~single_column(tty, isatty)
  /\ method \notin {"variable", "uniform"}
  /\ console_cols' = Max2(1, width - indent)
  /\ error' = [exc |-> "NameError", at |-> "colify"]
  /\ pc' = "failed"
  /\ UNCHANGED <<elts, padding, indent, tty, isatty, method, width, config,
                 formats, cols, rows, rows_last_col, row, output, result>>

\* lines 168-173
BeginRender ==
  /\ pc = "planned"
  /\ cols' = config.cols
  /\ formats' = make_formats(config.widths)
  /\ IF config.cols = 0
     THEN /\ error' = [exc |-> "ZeroDivisionError", at |-> "colify"]
          /\ pc' = "failed"
          /\ UNCHANGED <<rows, rows_last_col>>
     ELSE /\ rows' = (Len(elts) + config.cols - 1) \div config.cols
          /\ rows_last_col' = Len(elts) % rows'
          /\ pc' = "render"
          /\ UNCHANGED error
  /\ UNCHANGED <<elts, padding, indent, tty, isatty, method, width,
                 console_cols, config, row, output, result>>

\* lines 175-184: one iteration of the row loop
RenderRow ==
  /\ pc = "render"
  /\ row < rows
  /\ LET idx  == row_cells(row, cols, rows)
         bad  == {j \in 1..cols : idx[j] >= Len(elts)}
         upto == IF bad = {} THEN cols
                 ELSE (CHOOSE j \in bad : \A k \in bad : j <= k) - 1
         line == [indent |-> indent,
                  cells |-> [j \in 1..upto |->
                               format(formats[j], idx[j], elts[idx[j] + 1])],
                  newline |-> (bad = {})]
     IN /\ output' = Append(output, line)
        /\ IF bad = {}
           THEN /\ row' = row + 1
                /\ cols' = IF row + 1 = rows_last_col THEN cols - 1 ELSE cols
                /\ UNCHANGED <<pc, error>>
           ELSE /\ error' = [exc |-> "IndexError", at |-> "colify"]
                /\ pc' = "failed"
                /\ UNCHANGED <<row, cols>>
  /\ UNCHANGED <<elts, padding, indent, tty, isatty, method, width,
                 console_cols, config, formats, rows, rows_last_col, result>>

\* line 186
Return ==
  /\ pc = "render"
  /\ row = rows
  /\ result' = <<config.cols, config.widths>>
  /\ pc' = "done"
  /\ UNCHANGED <<elts, padding, indent, tty, isatty, method, width,
                 console_cols, config, formats, cols, rows, rows_last_col,
                 row, output, error>>

Next ==
  \/ ReturnEmpty
  \/ WriteSingleColumn
  \/ PlanVariable
  \/ PlanUniform
  \/ RaiseBadMethod
  \/ BeginRender
  \/ RenderRow
  \/ Return

Spec == Init /\ [][Next]_vars

\* ======================= properties =======================

\* the call took the multi-column path with a known method
Interactive == ~single_column(tty, isatty)

\* a planner was called on non-empty labels and returned its layout
LayoutReturned ==
  /\ elts # <<>>
  /\ Interactive
  /\ method \in {"variable", "uniform"}
  /\ pc # "start"
  /\ error.at \notin {"config_variable_cols", "config_uniform_cols"}

\* the variable planner ended with no valid candidate (lines 81-83)
NoCandidateValid ==
  \A j \in 1..max_cols(elts, console_cols, padding) :
     ~fitted_configs(elts, console_cols, padding)[j].valid

\* the uniform planner was held at one column by max(1, ...) (line 98)
UniformForced == console_cols \div uniform_max_len(elts, padding) < 1

ForcedSingleColumn ==
  \/ method = "variable" /\ NoCandidateValid
  \/ method = "uniform" /\ UniformForced

\* C1: on the interactive path the layout a planner returns for non-empty
\* labels has column_count >= 1 and as many widths as columns.
C1_ColumnCountPositive ==
  LayoutReturned => (config.cols >= 1 /\ Len(config.widths) = config.cols)

\* C2: when the variable strategy finds no candidate that fits, it returns one
\* column whose width is the length of the longest label of the whole list.
C2_FallbackWidthIsLongest ==
  (LayoutReturned /\ method = "variable" /\ NoCandidateValid)
     => (config.cols = 1 /\ config.widths = <<SeqMax(elts)>>)

\* the row length of candidate c as C3 words it: per occupied column the
\* widest label under column-major fill with ceil(n/c) rows, plus padding on
\* every column but column c
RowLength(c) ==
  LET nrows == (Len(elts) + c - 1) \div c
      inCol(j) == {k \in 0..(Len(elts) - 1) : k \div nrows = j}
      colMax(j) == IF inCol(j) = {} THEN 0
                   ELSE SetMax({elts[k + 1] : k \in inCol(j)})
                        + (IF j < c - 1 THEN padding ELSE 0)
  IN SeqSum([j \in 1..c |-> colMax(j - 1)])

\* C3: the variable strategy chooses the largest candidate c in 1..bound whose
\* row length does not exceed the available width (a candidate is invalid
\* exactly when its row length exceeds it), and a candidate that became
\* invalid stays invalid.
C3_LargestFittingCandidate ==
  (LayoutReturned /\ method = "variable") =>
     LET bound == max_cols(elts, console_cols, padding)
         fits  == {c \in 1..bound : RowLength(c) <= console_cols}
         confs == fitted_configs(elts, console_cols, padding)
     IN /\ \A c \in 1..bound : confs[c].valid <=> c \in fits
        /\ fits # {} => select_config(confs).cols = SetMax(fits)
        /\ \A c \in 1..bound : \A k \in 1..Len(elts) :
              fit(c - 1, k, elts, console_cols, padding).valid
                 => fit(c - 1, k - 1, elts, console_cols, padding).valid

\* the cells written for label i, as <<line, position in the line>>
CellsOf(i) ==
  {lc \in (1..Len(output)) \X (1..MaxElts + 1) :
      /\ lc[2] <= Len(output[lc[1]].cells)
      /\ output[lc[1]].cells[lc[2]].elt = i}

\* C4: rendering with the computed layout completes and emits every label
\* exactly once, label i at row i mod rows and column i / rows with
\* rows = ceil(n / column_count); no index read by the renderer is out of range.
C4_RenderRoundTrip ==
  (LayoutReturned /\ pc \in {"done", "failed"}) =>
     /\ pc = "done"
     /\ LET nrows == (Len(elts) + config.cols - 1) \div config.cols
        IN \A i \in 0..(Len(elts) - 1) :
              CellsOf(i) = {<<(i % nrows) + 1, (i \div nrows) + 1>>}

\* C5 as stated: outside the forced single-column fallback, the widths are
\* >= 0 and their sum plus (column_count - 1) * padding fits the width.
C5_SumPlusPaddingWithinWidth ==
  (LayoutReturned /\ ~ForcedSingleColumn) =>
     /\ \A j \in 1..Len(config.widths) : config.widths[j] >= 0
     /\ SeqSum(config.widths) + (config.cols - 1) * padding <= console_cols

\* C5 amended: outside the forced single-column fallback, the widths are >= 0
\* and their sum (each width already holds its column's padding) does not
\* exceed the available width.
C5_SumWithinWidth ==
  (LayoutReturned /\ ~ForcedSingleColumn) =>
     /\ \A j \in 1..Len(config.widths) : config.widths[j] >= 0
     /\ SeqSum(config.widths) <= console_cols

C5_Witness ==
  /\ LayoutReturned
  /\ ~ForcedSingleColumn
  /\ pc = "done"
  /\ config.cols >= 2
  /\ padding >= 1
  /\ SeqSum(config.widths) = console_cols

\* C6: for fixed labels and padding, the column count the variable strategy
\* returns never decreases when the available width grows.
C6_MonotoneInWidth ==
  (LayoutReturned /\ method = "variable") =>
     \A w1 \in 1..console_cols :
        config_variable_cols(elts, w1, padding).cols <= config.cols

C6_Witness ==
  /\ LayoutReturned
  /\ method = "variable"
  /\ pc = "done"
  /\ config.cols >= 3
  /\ \E w1 \in 1..console_cols :
        /\ config_variable_cols(elts, w1, padding).cols = 1
        /\ \A j \in 1..max_cols(elts, w1, padding) :
              ~fitted_configs(elts, w1, padding)[j].valid

\* C7: when all labels have the same length, the uniform and the variable
\* strategy return the same column count for the same labels, width, padding.
C7_StrategiesAgree ==
  (LayoutReturned /\ \A j \in 1..Len(elts) : elts[j] = elts[1]) =>
     config_uniform_cols(elts, console_cols, padding).cols
        = config_variable_cols(elts, console_cols, padding).cols

\* C8: a call with non-empty labels and an unknown method always ends in an
\* invalid-argument failure with nothing written, whatever tty and the sink.
C8_BadMethodRejected ==
  (elts # <<>> /\ method \notin {"variable", "uniform"}
     /\ pc \in {"done", "failed"})
     => (pc = "failed" /\ error.exc = "ValueError" /\ output = <<>>)

\* C9: for non-empty labels, padding >= 0 and width >= 1, no planner divides
\* by zero while computing its column bound.
C9_NoDivisionByZero ==
  ~(/\ error.exc = "ZeroDivisionError"
    /\ error.at \in {"config_variable_cols", "config_uniform_cols"})

\* C10: in every row the renderer has emitted, the last populated column is
\* written without trailing padding, the tail rows included.
C10_NoTrailingPadding ==
  \A l \in 1..Len(output) :
     (output[l].newline /\ output[l].cells # <<>>)
        => output[l].cells[Len(output[l].cells)].pad = 0
====
